---------------------------- MODULE Spec2Model ----------------------------
(***************************************************************************)
(* Model of the vector store (src/core/vector_db.py, class VectorDB) and   *)
(* of the text chunker (src/core/document_processor.py, _split_text).      *)
(*                                                                         *)
(* The store keeps two things in memory, `metadata` (a dict with the keys  *)
(* documents, chunks, next_doc_id, next_chunk_id) and `index` (a FAISS     *)
(* IndexFlatL2, here the sequence of its stored vectors), and two files on *)
(* disk, metadata.json and faiss_index.bin.                                *)
(*                                                                         *)
(* Document and chunk ids are str(int) in the code; they are modelled by   *)
(* the integer.  Titles, file paths, text previews and created_at stamps   *)
(* are carried by the records but read by no operation modelled here, so   *)
(* the records keep only the fields the operations read or write.          *)
(***************************************************************************)
EXTENDS Integers, Sequences, FiniteSets, TLC

\* ---------------------------------------------------------------- bounds
Dim == 1            \* dimension of the index (768 in the code's default)
MaxVal == 1         \* vector components range over 0..MaxVal
MaxChunks == 3      \* most chunks / embedding rows in one add_document call
MaxDocs == 3        \* add_document is not called once next_doc_id exceeds this
MaxVectors == 4     \* add_document is not called beyond this many vectors
MaxK == 2           \* top_k ranges over 1..MaxK
MaxLen == 5         \* longest text handed to _split_text
MaxChunkSize == 3   \* chunk_size ranges over 1..MaxChunkSize
MaxIter == 6        \* loop iterations of _split_text that are followed
MaxWideLen == 8     \* longest text handed to _split_text with a wide window
WideChunkSize == 7  \* the chunk_size whose half-window holds two sentence ends
ExampleLen == 2500  \* length of the example text with paragraph breaks
MinPeriod == 350    \* least distance between the example's paragraph breaks
MaxPeriod == 450    \* greatest distance between the example's paragraph breaks
MaxFaults == 1      \* most storage failures or process stops in one behaviour

\* --------------------------------------------------- program constants
DefaultChunkSize == 1000    \* chunk_size: int = 1000
DefaultChunkOverlap == 200  \* chunk_overlap: int = 200

\* ---------------------------------------------------------------- values
Vals == 0..MaxVal
Rows(w) == [1..w -> Vals]
ZeroRow(w) == [i \in 1..w |-> 0]

\* The array of n rows of width w that holds zeros.
ZeroArray(n, w) == [i \in 1..n |-> ZeroRow(w)]

\* Calls of add_document(title, file_path, chunks, embeddings), as
\* len(chunks) and the array.  Well-formed calls: every array of 1 to
\* MaxChunks rows of the index's width, with as many chunks.  Malformed calls,
\* whose array cells are never read: no chunk, no row, differing counts, and
\* rows one wider than the index.
WellFormedAdds ==
    {[nchunks |-> Len(e), embeddings |-> e] :
        e \in UNION {[1..n -> Rows(Dim)] : n \in 1..MaxChunks}}

MalformedAdds ==
    {[nchunks |-> 0, embeddings |-> ZeroArray(m, Dim)] : m \in 0..2}
    \cup {[nchunks |-> n, embeddings |-> ZeroArray(0, Dim)] : n \in 1..2}
    \cup {[nchunks |-> 1, embeddings |-> ZeroArray(2, Dim)],
          [nchunks |-> 2, embeddings |-> ZeroArray(1, Dim)]}
    \cup {[nchunks |-> n, embeddings |-> ZeroArray(n, Dim + 1)] : n \in 1..2}

AddInputs == WellFormedAdds \cup MalformedAdds

QueryInputs == Rows(Dim) \cup {ZeroRow(Dim + 1)}

NoVec == << -1 >>
EmptyMap == [x \in {} |-> x]
Absent == [state |-> "absent"]      \* a file that does not exist
Torn == [state |-> "torn"]          \* a file whose content cannot be parsed
Locked == [state |-> "locked"]      \* a file that can be neither read nor written
Data(c) == [state |-> "data", content |-> c]    \* a file that holds c

Max(S) == CHOOSE x \in S : \A y \in S : y <= x
Min(S) == CHOOSE x \in S : \A y \in S : x <= y
Range(s) == {s[i] : i \in DOMAIN s}
Restrict(f, S) == [x \in S |-> f[x]]

VARIABLES
    metadata,       \* self.metadata
    index,          \* self.index: the stored vectors, position p at index[p+1]
    diskMeta,       \* content of metadata.json
    diskIndex,      \* content of faiss_index.bin
    call,           \* the last call made on the store and its arguments' shape
    ret,            \* what that call returned or raised
    writes,         \* the file writes that call attempted, in order
    embOf,          \* history: the embedding row each live chunk was added with
    faults          \* history: storage failures and process stops so far

storeVars == <<metadata, index, diskMeta, diskIndex, call, ret, writes, embOf, faults>>

VARIABLES
    text,           \* the argument of _split_text, a sequence of characters
    chunk_size,     \* self.chunk_size
    chunk_overlap,  \* self.chunk_overlap
    start,          \* the cursor of the loop
    split_point,    \* the local `split_point`: where the last chunk was cut
    split_chunks,   \* the local list `chunks`
    split_pc,       \* "idle", "loop" (at the loop head) or "done" (returned)
    iters,          \* history: loop iterations that ran to their end
    covered         \* history: the 0-based offsets of text held by a chunk

splitVars ==
    <<text, chunk_size, chunk_overlap, start, split_point, split_chunks, split_pc,
      iters, covered>>

VARIABLES
    threads,        \* per thread: where it is inside add_document or
                    \* delete_document, and its local variables
    other           \* self.metadata and self.index of a second VectorDB
                    \* object constructed on the same directory

\* What a call on the first VectorDB object, made with no other call in
\* progress, leaves alone.
restVars == <<splitVars, threads, other>>

vars == <<storeVars, splitVars, threads, other>>

\* ------------------------------------------------------------- the store
Threads == 1..2

\* A thread that is in no call.
IdleThread ==
    [pc |-> "idle", doc_id |-> 0, nchunks |-> 0, embeddings |-> << >>,
     base |-> 0, chunk_id |-> 0, chunk_ids |-> << >>, vector_indices |-> {},
     keep_indices |-> << >>, keep_vectors |-> << >>]

ntotal(idx) == Len(idx)

\* _create_new_metadata, lines 97-102.
NewMetadata ==
    [documents |-> EmptyMap, chunks |-> EmptyMap,
     next_doc_id |-> 1, next_chunk_id |-> 1]

Returned(v) == [status |-> "returned", value |-> v]
Raised(e) == [status |-> "raised", error |-> e]

\* One write of a file.  outcome "ok": the file holds the new content;
\* "none": the write failed before it touched the file; "torn": it failed
\* part-way and the file is unreadable.
WriteOutcomes == {"ok", "none", "torn"}

WriteFile(old, new, outcome) ==
    CASE outcome = "ok" -> Data(new)
      [] outcome = "none" -> old
      [] OTHER -> Torn

\* A write step of an operation: the file, the content, whether a failed
\* write raises out of the operation (faiss.write_index in _create_new_index)
\* or is logged and swallowed (_save_metadata, _save_index), and whether the
\* step copies an existing file to a .bak file first (lines 123-126 and
\* 144-147; _create_new_index has no such copy).
SaveMetadataStep(meta) ==
    [file |-> "metadata", content |-> meta, fatal |-> FALSE, backup |-> TRUE]
SaveIndexStep(idx) ==
    [file |-> "index", content |-> idx, fatal |-> FALSE, backup |-> TRUE]
CreateNewIndexStep ==
    [file |-> "index", content |-> << >>, fatal |-> TRUE, backup |-> FALSE]

\* os.path.exists on one of the two files.
Exists(file) == file.state # "absent"

\* What is recorded of one write: the file, the outcome, whether the file
\* existed before it, and whether its content was copied to a backup first.
WriteRecord(s, old, o) ==
    [file |-> s.file, outcome |-> o, existed |-> Exists(old),
     backed_up |-> s.backup /\ Exists(old)]

\* add_document lines 217-219, delete_document lines 415-417, save_index
\* lines 456-457: the order of the two saves.
SaveSteps(meta, idx) == << SaveMetadataStep(meta), SaveIndexStep(idx) >>

\* Runs write steps in order against the two files; stops at a fatal failure.
RECURSIVE RunWrites(_, _, _, _, _)
RunWrites(dm, di, steps, outs, log) ==
    IF steps = << >>
    THEN [diskMeta |-> dm, diskIndex |-> di, log |-> log, raised |-> FALSE]
    ELSE LET s == Head(steps)
             old == IF s.file = "metadata" THEN dm ELSE di
             o == IF old = Locked THEN "none" ELSE Head(outs)
             dm2 == IF s.file = "metadata" THEN WriteFile(dm, s.content, o) ELSE dm
             di2 == IF s.file = "index" THEN WriteFile(di, s.content, o) ELSE di
             log2 == Append(log, WriteRecord(s, old, o))
         IN IF o # "ok" /\ s.fatal
            THEN [diskMeta |-> dm2, diskIndex |-> di2, log |-> log2, raised |-> TRUE]
            ELSE RunWrites(dm2, di2, Tail(steps), Tail(outs), log2)

FailsIn(log) == Cardinality({i \in DOMAIN log : log[i].outcome # "ok"})
FailCount(outs) == Cardinality({i \in DOMAIN outs : outs[i] # "ok"})

\* The outcomes the environment may give n writes when at most `budget`
\* storage failures may have happened in the behaviour.
Outcomes(n, budget) ==
    {o \in [1..n -> WriteOutcomes] :
        FailCount(o) = 0 \/ faults + FailCount(o) <= budget}

\* ---------------------------------------------------------- add_document
\* Variant: the comparison of the two lengths (line 177) is missing.
AddRejectsEmptyOnly(nchunks, embeddings) ==
    \/ nchunks = 0
    \/ Len(embeddings) = 0

\* Lines 172-180: the two validation checks.
AddRejects(nchunks, embeddings) ==
    \/ nchunks = 0
    \/ Len(embeddings) = 0
    \/ nchunks # Len(embeddings)

\* embeddings.shape[1]; index.add asserts it against the index's dimension.
Width(embeddings) == Len(embeddings[1])

\* Variant: vector_index counts from index.ntotal as if it were read before
\* index.add.
NewChunkRecordsFromTotal(doc_id, first_chunk_id, nchunks, total) ==
    [c \in first_chunk_id .. (first_chunk_id + nchunks - 1) |->
        [doc_id |-> doc_id,
         index |-> c - first_chunk_id,
         vector_index |-> total + (c - first_chunk_id)]]

\* Variant: the positions of the new vectors are handed out last chunk
\* first.
NewChunkRecordsReversed(doc_id, first_chunk_id, nchunks, total) ==
    [c \in first_chunk_id .. (first_chunk_id + nchunks - 1) |->
        [doc_id |-> doc_id,
         index |-> c - first_chunk_id,
         vector_index |-> total - 1 - (c - first_chunk_id)]]

\* Lines 200-212: the chunk records of the new document; `total` is
\* index.ntotal after index.add.
NewChunkRecords(doc_id, first_chunk_id, nchunks, total) ==
    [c \in first_chunk_id .. (first_chunk_id + nchunks - 1) |->
        [doc_id |-> doc_id,
         index |-> c - first_chunk_id,
         vector_index |-> total - nchunks + (c - first_chunk_id)]]

MapUnion(f, g) ==
    [x \in (DOMAIN f) \cup (DOMAIN g) |-> IF x \in DOMAIN g THEN g[x] ELSE f[x]]

ChunkIdList(first_chunk_id, nchunks) ==
    [i \in 1..nchunks |-> first_chunk_id + i - 1]

\* Variant: the id is taken but next_doc_id is not advanced.
WithNewDocumentSameCounter(meta, nchunks) ==
    [meta EXCEPT
        !.documents = MapUnion(@,
            [d \in {meta.next_doc_id} |-> [chunk_count |-> nchunks]])]

\* Lines 183-193: the id is taken and the document record stored first.
WithNewDocument(meta, nchunks) ==
    [meta EXCEPT
        !.next_doc_id = @ + 1,
        !.documents = MapUnion(@,
            [d \in {meta.next_doc_id} |-> [chunk_count |-> nchunks]])]

\* The in-memory effect of add_document and the writes it then makes.
AddEffect(meta, idx, nchunks, embeddings) ==
    IF AddRejects(nchunks, embeddings)
    THEN [metadata |-> meta, index |-> idx, rows |-> EmptyMap,
          ret |-> Raised("ValueError"), steps |-> << >>]
    ELSE IF Width(embeddings) # Dim
    THEN \* index.add raises; the except clause logs and re-raises
         [metadata |-> WithNewDocument(meta, nchunks), index |-> idx,
          rows |-> EmptyMap, ret |-> Raised("AssertionError"), steps |-> << >>]
    ELSE LET doc_id == meta.next_doc_id
             first == meta.next_chunk_id
             newIndex == idx \o embeddings
             recs == NewChunkRecords(doc_id, first, nchunks, ntotal(newIndex))
             newMeta == [WithNewDocument(meta, nchunks) EXCEPT
                           !.next_chunk_id = @ + nchunks,
                           !.chunks = MapUnion(@, recs),
                           !.documents[doc_id] =
                               [chunk_count |-> nchunks,
                                chunk_ids |-> ChunkIdList(first, nchunks)]]
         IN [metadata |-> newMeta, index |-> newIndex,
             rows |-> [c \in DOMAIN recs |->
                         IF c - first + 1 \in DOMAIN embeddings
                         THEN embeddings[c - first + 1] ELSE NoVec],
             ret |-> Returned(doc_id),
             steps |-> SaveSteps(newMeta, newIndex)]

\* History of embeddings, kept for the chunk records that are live.
TrackEmb(rows, meta) ==
    Restrict(MapUnion(embOf, rows),
             (DOMAIN embOf \cup DOMAIN rows) \cap DOMAIN meta.chunks)

\* What is recorded of an add_document call: the shape of its arguments.
ShapeOf(nchunks, embeddings) ==
    CASE nchunks = 0 -> "no_chunks"
      [] nchunks > 0 /\ Len(embeddings) = 0 -> "no_rows"
      [] nchunks > 0 /\ Len(embeddings) > 0 /\ nchunks # Len(embeddings) -> "count_mismatch"
      [] nchunks > 0 /\ nchunks = Len(embeddings) /\ Len(embeddings[1]) # Dim -> "wrong_width"
      [] OTHER -> "well_formed"

AddCall(nchunks, embeddings) ==
    [op |-> "add_document", shape |-> ShapeOf(nchunks, embeddings)]

\* The store exists: its constructor did not raise.
StoreOpen == ~(call.op = "construct" /\ ret.status = "raised")

AddDocument(nchunks, embeddings, budget) ==
    /\ StoreOpen
    /\ metadata.next_doc_id <= MaxDocs
    /\ ntotal(index) + Len(embeddings) <= MaxVectors
    /\ LET eff == AddEffect(metadata, index, nchunks, embeddings)
       IN \E outs \in Outcomes(Len(eff.steps), budget) :
            LET w == RunWrites(diskMeta, diskIndex, eff.steps, outs, << >>)
            IN /\ metadata' = eff.metadata
               /\ index' = eff.index
               /\ diskMeta' = w.diskMeta
               /\ diskIndex' = w.diskIndex
               /\ writes' = w.log
               /\ ret' = eff.ret
               /\ call' = AddCall(nchunks, embeddings)
               /\ embOf' = TrackEmb(eff.rows, eff.metadata)
               /\ faults' = faults + FailCount(outs)

\* ------------------------------------------------------- delete_document
\* Line 363: .get("chunk_ids", []) on the document record.
GetChunkIds(doc) == IF "chunk_ids" \in DOMAIN doc THEN doc.chunk_ids ELSE << >>

\* The ascending list of the members of a finite set of integers.
RECURSIVE SortedSeq(_)
SortedSeq(S) ==
    IF S = {} THEN << >> ELSE << Min(S) >> \o SortedSeq(S \ {Min(S)})

\* Variant: no position is excluded.
KeepIndicesAll(total, vector_indices) ==
    SortedSeq(0..(total - 1))

\* Line 385: the positions that stay, in ascending order.
KeepIndices(total, vector_indices) ==
    SortedSeq({i \in 0..(total - 1) : i \notin vector_indices})

\* Variant: the kept vectors are stored in descending position order.
KeepVectorsReversed(idx, keep_indices) ==
    [n \in 1..Len(keep_indices) |->
        idx[keep_indices[Len(keep_indices) + 1 - n] + 1]]

\* Lines 389-395: the kept vectors, read with index.reconstruct(old_idx).
KeepVectors(idx, keep_indices) ==
    [n \in 1..Len(keep_indices) |-> idx[keep_indices[n] + 1]]

\* Variant: the new positions are counted from the end.
IndexMappingReversed(keep_indices) ==
    [old \in Range(keep_indices) |->
        Len(keep_indices) - (CHOOSE n \in 1..Len(keep_indices) : keep_indices[n] = old)]

\* Line 398: old position -> new position.
IndexMapping(keep_indices) ==
    [old \in Range(keep_indices) |->
        (CHOOSE n \in 1..Len(keep_indices) : keep_indices[n] = old) - 1]

\* Variant: the surviving chunk records keep their old positions.
RemapChunksSkipped(chunks, index_mapping) == chunks

\* Lines 399-402: the surviving chunk records are renumbered.
RemapChunks(chunks, index_mapping) ==
    [c \in DOMAIN chunks |->
        IF chunks[c].vector_index \in DOMAIN index_mapping
        THEN [chunks[c] EXCEPT !.vector_index = index_mapping[@]]
        ELSE chunks[c]]

\* Variant: the chunk records are read but not removed.
RemoveChunksKept(chunks, chunk_ids) == chunks

\* Lines 366-374: the chunk records of the document are removed.
RemoveChunks(chunks, chunk_ids) ==
    Restrict(chunks, DOMAIN chunks \ Range(chunk_ids))

\* Variant: an unknown id is reported as deleted.
NotFoundEffectTrue(meta, idx) ==
    [metadata |-> meta, index |-> idx, ret |-> Returned(TRUE),
     steps |-> << >>, aborted |-> [metadata |-> meta, index |-> idx]]

\* Lines 357-359: the id is not a key of documents.
NotFoundEffect(meta, idx) ==
    [metadata |-> meta, index |-> idx, ret |-> Returned(FALSE),
     steps |-> << >>, aborted |-> [metadata |-> meta, index |-> idx]]

\* The in-memory effect of delete_document and the writes it makes.
\* `aborted` is the in-memory state left when the write in
\* _create_new_index (line 410) raises.
DeleteEffect(meta, idx, doc_id) ==
    IF doc_id \notin DOMAIN meta.documents
    THEN NotFoundEffect(meta, idx)
    ELSE LET chunk_ids == GetChunkIds(meta.documents[doc_id])
             vector_indices ==
                 {meta.chunks[c].vector_index :
                     c \in Range(chunk_ids) \cap DOMAIN meta.chunks}
             chunks1 == RemoveChunks(meta.chunks, chunk_ids)
             keep_indices == KeepIndices(ntotal(idx), vector_indices)
             rebuild == vector_indices # {} /\ keep_indices # << >>
             reset == vector_indices # {} /\ keep_indices = << >>
             chunks2 == IF rebuild
                        THEN RemapChunks(chunks1, IndexMapping(keep_indices))
                        ELSE chunks1
             index2 == IF rebuild THEN KeepVectors(idx, keep_indices)
                       ELSE IF reset THEN << >> ELSE idx
             meta2 == [meta EXCEPT
                         !.chunks = chunks2,
                         !.documents = Restrict(@, DOMAIN @ \ {doc_id})]
         IN [metadata |-> meta2, index |-> index2, ret |-> Returned(TRUE),
             steps |-> (IF reset THEN << CreateNewIndexStep >> ELSE << >>)
                       \o SaveSteps(meta2, index2),
             aborted |-> [metadata |-> [meta EXCEPT !.chunks = chunks1],
                          index |-> index2]]

DeleteDocument(doc_id, budget) ==
    /\ StoreOpen
    /\ LET eff == DeleteEffect(metadata, index, doc_id)
       IN \E outs \in Outcomes(Len(eff.steps), budget) :
            LET w == RunWrites(diskMeta, diskIndex, eff.steps, outs, << >>)
                mem == IF w.raised THEN eff.aborted
                       ELSE [metadata |-> eff.metadata, index |-> eff.index]
            IN /\ metadata' = mem.metadata
               /\ index' = mem.index
               /\ diskMeta' = w.diskMeta
               /\ diskIndex' = w.diskIndex
               /\ writes' = w.log
               /\ ret' = IF w.raised THEN Raised("RuntimeError") ELSE eff.ret
               /\ call' = [op |-> "delete_document", doc_id |-> doc_id]
               /\ embOf' = TrackEmb(EmptyMap, mem.metadata)
               /\ faults' = faults + FailsIn(w.log)

\* ----------------------------------------------------------------- search
\* Squared L2 distance, as IndexFlatL2 computes it.
RECURSIVE SumSq(_, _, _)
SumSq(a, b, i) ==
    IF i = 0 THEN 0 ELSE (a[i] - b[i]) * (a[i] - b[i]) + SumSq(a, b, i - 1)

L2(a, b) == SumSq(a, b, Len(a))

\* Greater than every distance between two vectors of the model; stands for
\* the distance FAISS reports next to the label -1.
NoHitDistance == Dim * MaxVal * MaxVal + 1

\* The ways to list `k` labels out of `labels` nearest first, for the
\* distances `dist`: each next label is one of the nearest not yet listed.
RECURSIVE NearestFirst(_, _, _)
NearestFirst(dist, labels, k) ==
    IF k = 0 \/ labels = {} THEN {<< >>}
    ELSE LET nearest == {p \in labels : \A r \in labels : dist[p] <= dist[r]}
         IN UNION {{<< p >> \o rest : rest \in NearestFirst(dist, labels \ {p}, k - 1)} :
                      p \in nearest}

\* index.search(query, k) on a flat L2 index: k (distance, label) pairs in
\* ascending distance, padded with label -1 when fewer than k vectors are
\* stored.  The order among equal distances is FAISS's choice, so every order
\* is an outcome.
FaissSearch(idx, q, k) ==
    LET n == ntotal(idx)
        dist == [p \in 0..(n - 1) |-> L2(idx[p + 1], q)]
    IN {[i \in 1..k |->
            IF i <= Len(hits) THEN [label |-> hits[i], distance |-> dist[hits[i]]]
                              ELSE [label |-> -1, distance |-> NoHitDistance]] :
        hits \in NearestFirst(dist, 0..(n - 1), k)}

\* Lines 261-265: the first chunk record, in the dict's order (ascending id),
\* whose vector_index is the label; 0 stands for None.
ChunkAt(meta, label) ==
    LET hits == {c \in DOMAIN meta.chunks : meta.chunks[c].vector_index = label}
    IN IF hits = {} THEN 0 ELSE Min(hits)

\* Line 254: the label -1 is skipped.
IsSentinel(label) == label = -1

\* Line 281: similarity = 1 / (1 + distance), as the fraction num/den.
Similarity(distance) == [num |-> 1, den |-> 1 + distance]

\* Lines 251-284: the loop over the hits.  A chunk whose document record is
\* missing makes line 273 raise KeyError.
RECURSIVE Resolve(_, _, _)
Resolve(meta, hits, results) ==
    IF hits = << >> THEN Returned(results)
    ELSE LET h == Head(hits)
             chunk_id == ChunkAt(meta, h.label)
         IN IF IsSentinel(h.label) \/ chunk_id = 0
            THEN Resolve(meta, Tail(hits), results)
            ELSE LET chunk_info == meta.chunks[chunk_id]
                 IN IF chunk_info.doc_id \notin DOMAIN meta.documents
                    THEN Raised("KeyError")
                    ELSE Resolve(meta, Tail(hits), Append(results,
                            [chunk_id |-> chunk_id,
                             doc_id |-> chunk_info.doc_id,
                             chunk_index |-> chunk_info.index,
                             similarity |-> Similarity(h.distance),
                             distance |-> h.distance]))

\* What search(query_vector, top_k) may return or raise.
SearchOutcomes(meta, idx, q, k) ==
    IF ntotal(idx) = 0 THEN {Returned(<< >>)}
    ELSE IF Len(q) # Dim THEN {Raised("AssertionError")}
    ELSE {Resolve(meta, hits, << >>) : hits \in FaissSearch(idx, q, k)}

Search(q, k) ==
    /\ StoreOpen
    /\ ret' \in SearchOutcomes(metadata, index, q, k)
    /\ call' = [op |-> "search", query |-> q, top_k |-> k]
    /\ writes' = << >>
    /\ UNCHANGED <<metadata, index, diskMeta, diskIndex, embOf, faults>>

\* -------------------------------------------------------- read operations
None == [none |-> TRUE]

ChunksOfDoc(meta, d) == {c \in DOMAIN meta.chunks : meta.chunks[c].doc_id = d}

get_document_by_id(meta, doc_id) ==
    IF doc_id \in DOMAIN meta.documents THEN meta.documents[doc_id] ELSE None

get_chunk_by_id(meta, chunk_id) ==
    IF chunk_id \in DOMAIN meta.chunks THEN meta.chunks[chunk_id] ELSE None

get_stats(meta, idx) ==
    [document_count |-> Cardinality(DOMAIN meta.documents),
     chunk_count |-> Cardinality(DOMAIN meta.chunks),
     vector_count |-> ntotal(idx)]

\* get_all_documents and get_all_chunks (lines 319-343) return the store's
\* own dicts, not copies.
GetAll(which) ==
    /\ StoreOpen
    /\ call' = [op |-> which]
    /\ ret' = Returned(IF which = "get_all_documents" THEN metadata.documents
                                                       ELSE metadata.chunks)
    /\ writes' = << >>
    /\ UNCHANGED <<metadata, index, diskMeta, diskIndex, embOf, faults>>

\* ------------------------------------------------- dashboard callbacks
\* record[key] = value on a dict.
WithKey(record, key, value) ==
    [k \in DOMAIN record \cup {key} |-> IF k = key THEN value ELSE record[k]]

\* update_file_list (src/dashboard.py lines 385-398): the loop assigns
\* doc_info['doc_id'] on the records of the dict get_all_documents returned,
\* which are the store's records.
UpdateFileList ==
    /\ StoreOpen
    /\ metadata' = [metadata EXCEPT !.documents =
                       [d \in DOMAIN @ |-> WithKey(@[d], "doc_id", d)]]
    /\ call' = [op |-> "update_file_list"]
    /\ ret' = Returned(Cardinality(DOMAIN metadata.documents))
    /\ writes' = << >>
    /\ UNCHANGED <<index, diskMeta, diskIndex, embOf, faults>>

\* display_chunk_list (src/dashboard.py lines 479-494) for the selected
\* document: it returns early when get_document_by_id gives None, else
\* assigns chunk_info['chunk_id'] on the store's records of that document.
DisplayChunkList(doc_id) ==
    /\ StoreOpen
    /\ metadata' =
          IF get_document_by_id(metadata, doc_id) = None THEN metadata
          ELSE [metadata EXCEPT !.chunks =
                  [c \in DOMAIN @ |-> IF @[c].doc_id = doc_id
                                      THEN WithKey(@[c], "chunk_id", c) ELSE @[c]]]
    /\ call' = [op |-> "display_chunk_list", doc_id |-> doc_id]
    /\ ret' = Returned(Cardinality(ChunksOfDoc(metadata, doc_id)))
    /\ writes' = << >>
    /\ UNCHANGED <<index, diskMeta, diskIndex, embOf, faults>>

\* ------------------------------------------------ add_document, stepwise
\* dashboard.py starts one thread per uploaded file (lines 300-306) and no
\* lock guards the VectorDB, so another thread may run between any two
\* statements of add_document.  Each action below is one statement, or one
\* run of statements, of lines 183-222, acting on the shared metadata and
\* index; `threads[t]` holds the call's local variables.
ThreadRows(t, n) == [i \in 1..n |-> [j \in 1..Dim |-> t - 1]]

\* Line 184: doc_id = str(self.metadata["next_doc_id"]).
AddTakeDocId(t, nchunks) ==
    /\ threads[t].pc = "idle"
    /\ threads' = [threads EXCEPT ![t] =
           [IdleThread EXCEPT !.pc = "took_doc_id",
                              !.doc_id = metadata.next_doc_id,
                              !.nchunks = nchunks,
                              !.embeddings = ThreadRows(t, nchunks)]]
    /\ UNCHANGED storeVars

\* Lines 185-193: the counter is advanced and the document record stored.
AddStoreDocument(t) ==
    /\ threads[t].pc = "took_doc_id"
    /\ metadata' = [metadata EXCEPT
           !.next_doc_id = @ + 1,
           !.documents = MapUnion(@, [d \in {threads[t].doc_id} |->
                                        [chunk_count |-> threads[t].nchunks]])]
    /\ threads' = [threads EXCEPT ![t].pc = "stored_document"]
    /\ UNCHANGED <<index, diskMeta, diskIndex, call, ret, writes, embOf, faults>>

\* Line 196: self.index.add(embeddings); `base` remembers where the rows
\* went.
AddToIndex(t) ==
    /\ threads[t].pc = "stored_document"
    /\ index' = index \o threads[t].embeddings
    /\ threads' = [threads EXCEPT ![t].pc = "added_vectors",
                                  ![t].base = ntotal(index)]
    /\ UNCHANGED <<metadata, diskMeta, diskIndex, call, ret, writes, embOf, faults>>

\* Line 201: chunk_id = str(self.metadata["next_chunk_id"]).
AddTakeChunkId(t) ==
    /\ threads[t].pc = "added_vectors"
    /\ Len(threads[t].chunk_ids) < threads[t].nchunks
    /\ threads' = [threads EXCEPT ![t].pc = "took_chunk_id",
                                  ![t].chunk_id = metadata.next_chunk_id]
    /\ UNCHANGED storeVars

\* Lines 202-212: the counter is advanced and the chunk record stored, its
\* vector_index computed from index.ntotal as it is now.
AddStoreChunk(t) ==
    /\ threads[t].pc = "took_chunk_id"
    /\ LET i == Len(threads[t].chunk_ids)
           rec == [doc_id |-> threads[t].doc_id,
                   index |-> i,
                   vector_index |-> ntotal(index) - threads[t].nchunks + i]
       IN /\ metadata' = [metadata EXCEPT
                 !.next_chunk_id = @ + 1,
                 !.chunks = MapUnion(@, [c \in {threads[t].chunk_id} |-> rec])]
          /\ embOf' = MapUnion(embOf, [c \in {threads[t].chunk_id} |->
                                          threads[t].embeddings[i + 1]])
    /\ threads' = [threads EXCEPT
           ![t].pc = "added_vectors",
           ![t].chunk_ids = Append(@, threads[t].chunk_id)]
    /\ UNCHANGED <<index, diskMeta, diskIndex, call, ret, writes, faults>>

\* Lines 215-222: the chunk ids are linked to the document record, the two
\* files saved and the doc id returned.
AddFinish(t) ==
    /\ threads[t].pc = "added_vectors"
    /\ Len(threads[t].chunk_ids) = threads[t].nchunks
    /\ LET newMeta == [metadata EXCEPT
                          !.documents[threads[t].doc_id] =
                              MapUnion(@, [f \in {"chunk_ids"} |-> threads[t].chunk_ids])]
           w == RunWrites(diskMeta, diskIndex, SaveSteps(newMeta, index),
                          << "ok", "ok" >>, << >>)
       IN /\ metadata' = newMeta
          /\ diskMeta' = w.diskMeta
          /\ diskIndex' = w.diskIndex
          /\ writes' = w.log
    /\ ret' = Returned(threads[t].doc_id)
    /\ call' = [op |-> "add_document", shape |-> "well_formed", thread |-> t]
    /\ threads' = [threads EXCEPT ![t].pc = "returned"]
    /\ UNCHANGED <<index, embOf, faults>>

\* --------------------------------------------- delete_document, stepwise
\* The statements of delete_document between which a search running in
\* another thread may be scheduled.  `ret` is Running while the call is
\* inside its body.
Running == [status |-> "running"]

NoThreadActive == \A t \in Threads : threads[t].pc = "idle"

DeleteStep(doc_id, at) == [op |-> "delete_document", doc_id |-> doc_id, at |-> at]

\* Lines 357-374: the chunk ids are read, the positions of their vectors
\* collected and the chunk records removed.
DelCollect(t, doc_id) ==
    /\ StoreOpen
    /\ threads[t].pc = "idle"
    /\ doc_id \in DOMAIN metadata.documents
    /\ LET chunk_ids == GetChunkIds(metadata.documents[doc_id])
           vector_indices ==
               {metadata.chunks[c].vector_index :
                   c \in Range(chunk_ids) \cap DOMAIN metadata.chunks}
           newMeta == [metadata EXCEPT !.chunks = RemoveChunks(@, chunk_ids)]
       IN /\ metadata' = newMeta
          /\ embOf' = TrackEmb(EmptyMap, newMeta)
          /\ threads' = [threads EXCEPT ![t] =
                 [IdleThread EXCEPT !.pc = "collected",
                                    !.doc_id = doc_id,
                                    !.chunk_ids = chunk_ids,
                                    !.vector_indices = vector_indices]]
    /\ call' = DeleteStep(doc_id, "collected")
    /\ ret' = Running
    /\ writes' = << >>
    /\ UNCHANGED <<index, diskMeta, diskIndex, faults>>

\* Lines 378-402: keep_indices and keep_vectors are built from the index
\* and the surviving chunk records renumbered; self.index is still the
\* old index.
DelRemap(t) ==
    /\ threads[t].pc = "collected"
    /\ LET keep_indices == KeepIndices(ntotal(index), threads[t].vector_indices)
           rebuild == threads[t].vector_indices # {} /\ keep_indices # << >>
       IN /\ metadata' = IF rebuild
                         THEN [metadata EXCEPT
                                 !.chunks = RemapChunks(@, IndexMapping(keep_indices))]
                         ELSE metadata
          /\ threads' = [threads EXCEPT
                 ![t].pc = "remapped",
                 ![t].keep_indices = keep_indices,
                 ![t].keep_vectors = IF rebuild THEN KeepVectors(index, keep_indices)
                                     ELSE << >>]
    /\ call' = DeleteStep(threads[t].doc_id, "remapped")
    /\ UNCHANGED <<index, diskMeta, diskIndex, ret, writes, embOf, faults>>

\* Lines 405-410: self.index becomes the rebuilt index, or the empty one
\* that _create_new_index also writes to the index file.
DelSwap(t) ==
    /\ threads[t].pc = "remapped"
    /\ LET reset == threads[t].vector_indices # {} /\ threads[t].keep_indices = << >>
           w == RunWrites(diskMeta, diskIndex,
                          IF reset THEN << CreateNewIndexStep >> ELSE << >>,
                          IF reset THEN << "ok" >> ELSE << >>, << >>)
       IN /\ index' = IF threads[t].vector_indices = {} THEN index
                      ELSE threads[t].keep_vectors
          /\ diskMeta' = w.diskMeta
          /\ diskIndex' = w.diskIndex
          /\ writes' = w.log
    /\ threads' = [threads EXCEPT ![t].pc = "swapped"]
    /\ call' = DeleteStep(threads[t].doc_id, "swapped")
    /\ UNCHANGED <<metadata, ret, embOf, faults>>

\* Lines 413-420: the document record is deleted, the two files saved and
\* True returned.
DelFinish(t) ==
    /\ threads[t].pc = "swapped"
    /\ LET newMeta == [metadata EXCEPT
                          !.documents = Restrict(@, DOMAIN @ \ {threads[t].doc_id})]
           w == RunWrites(diskMeta, diskIndex, SaveSteps(newMeta, index),
                          << "ok", "ok" >>, writes)
       IN /\ metadata' = newMeta
          /\ diskMeta' = w.diskMeta
          /\ diskIndex' = w.diskIndex
          /\ writes' = w.log
    /\ threads' = [threads EXCEPT ![t] = IdleThread]
    /\ call' = [op |-> "delete_document", doc_id |-> threads[t].doc_id]
    /\ ret' = Returned(TRUE)
    /\ UNCHANGED <<index, embOf, faults>>

\* ------------------------------------------- a second VectorDB object
\* dashboard.py constructs a VectorDB (line 54) and a RAGEngine (line 79)
\* whose __init__ constructs another VectorDB on the same path
\* (src/core/rag_engine.py lines 64-72).  Each object loads the files once,
\* in _init_db, and from then on writes its own metadata and index.
OtherAddDocument(nchunks, embeddings) ==
    /\ StoreOpen
    /\ other.metadata.next_doc_id <= MaxDocs
    /\ ntotal(other.index) + Len(embeddings) <= MaxVectors
    /\ LET eff == AddEffect(other.metadata, other.index, nchunks, embeddings)
           w == RunWrites(diskMeta, diskIndex, eff.steps,
                          [i \in 1..Len(eff.steps) |-> "ok"], << >>)
       IN /\ other' = [metadata |-> eff.metadata, index |-> eff.index]
          /\ diskMeta' = w.diskMeta
          /\ diskIndex' = w.diskIndex
          /\ writes' = w.log
          /\ ret' = eff.ret
          /\ call' = [op |-> "add_document", shape |-> ShapeOf(nchunks, embeddings),
                      object |-> "other"]
    /\ UNCHANGED <<metadata, index, embOf, faults, threads>>

OtherDeleteDocument(doc_id) ==
    /\ StoreOpen
    /\ LET eff == DeleteEffect(other.metadata, other.index, doc_id)
           w == RunWrites(diskMeta, diskIndex, eff.steps,
                          [i \in 1..Len(eff.steps) |-> "ok"], << >>)
       IN /\ other' = [metadata |-> eff.metadata, index |-> eff.index]
          /\ diskMeta' = w.diskMeta
          /\ diskIndex' = w.diskIndex
          /\ writes' = w.log
          /\ ret' = eff.ret
          /\ call' = [op |-> "delete_document", doc_id |-> doc_id, object |-> "other"]
    /\ UNCHANGED <<metadata, index, embOf, faults, threads>>

\* ------------------------------------------------- construction, restart
Readable(file) == file.state = "data"

\* _init_db, lines 63-91: each file is loaded when it exists and can be
\* read; otherwise a new empty one is created and written.
InitEffect(dm, di) ==
    [metadata |-> IF Readable(dm) THEN dm.content ELSE NewMetadata,
     index |-> IF Readable(di) THEN di.content ELSE << >>,
     steps |-> (IF Readable(dm) THEN << >> ELSE << SaveMetadataStep(NewMetadata) >>)
               \o (IF Readable(di) THEN << >> ELSE << CreateNewIndexStep >>)]

\* The files as a stop of the process inside an operation leaves them: the
\* first `done` writes completed, and when `midway` holds the next one was
\* started and left the file torn.
RECURSIVE AfterStop(_, _, _, _, _)
AfterStop(dm, di, steps, done, midway) ==
    IF steps = << >> THEN [diskMeta |-> dm, diskIndex |-> di]
    ELSE LET s == Head(steps)
             o == IF done > 0 THEN "ok" ELSE IF midway THEN "torn" ELSE "none"
             dm2 == IF s.file = "metadata" THEN WriteFile(dm, s.content, o) ELSE dm
             di2 == IF s.file = "index" THEN WriteFile(di, s.content, o) ELSE di
         IN IF done > 0 THEN AfterStop(dm2, di2, Tail(steps), done - 1, midway)
            ELSE [diskMeta |-> dm2, diskIndex |-> di2]

\* The process stops inside an operation whose writes are `steps`, and a new
\* VectorDB is constructed on the same directory.
StopAndReopen(steps, rows, done, midway) ==
    /\ faults < MaxFaults
    /\ faults' = faults + 1
    /\ LET stopped == AfterStop(diskMeta, diskIndex, steps, done, midway)
           eff == InitEffect(stopped.diskMeta, stopped.diskIndex)
           w == RunWrites(stopped.diskMeta, stopped.diskIndex, eff.steps,
                          [i \in 1..Len(eff.steps) |-> "ok"], << >>)
       IN /\ metadata' = eff.metadata
          /\ index' = eff.index
          /\ diskMeta' = w.diskMeta
          /\ diskIndex' = w.diskIndex
          /\ writes' = w.log
          /\ call' = [op |-> "construct", after |-> "stop"]
          /\ ret' = Returned(0)
          /\ embOf' = TrackEmb(rows, eff.metadata)

\* The points at which an operation with n writes can stop: after `done`
\* of them, or midway through the next one.
StopPoints(n) ==
    {[done |-> d, midway |-> m] : d \in 0..n, m \in BOOLEAN} \ {[done |-> n, midway |-> TRUE]}

StopInAdd(nchunks, embeddings) ==
    /\ faults < MaxFaults
    /\ StoreOpen
    /\ metadata.next_doc_id <= MaxDocs
    /\ ntotal(index) + Len(embeddings) <= MaxVectors
    /\ LET eff == AddEffect(metadata, index, nchunks, embeddings)
       IN \E at \in StopPoints(Len(eff.steps)) :
            StopAndReopen(eff.steps, eff.rows, at.done, at.midway)

StopInDelete(doc_id) ==
    /\ faults < MaxFaults
    /\ StoreOpen
    /\ LET eff == DeleteEffect(metadata, index, doc_id)
       IN \E at \in StopPoints(Len(eff.steps)) :
            StopAndReopen(eff.steps, EmptyMap, at.done, at.midway)

\* What can be wrong with a file when a VectorDB is constructed on its
\* directory: nothing, content that cannot be parsed, or a file that can be
\* neither read nor written (no permission on it).
FileConditions == {"intact", "torn", "locked"}

Damaged(file, condition) ==
    CASE condition = "torn" -> Torn
      [] condition = "locked" -> Locked
      [] OTHER -> file

\* The store is closed, its files are found in the given conditions, and a
\* new VectorDB is constructed on the directory (lines 28-91).  The write in
\* _create_new_index is not guarded and raises out of the constructor.
ReopenDamaged(metaCondition, indexCondition) ==
    /\ faults < MaxFaults
    /\ StoreOpen
    /\ Exists(diskMeta)
    /\ Exists(diskIndex)
    /\ faults' = faults + 1
    /\ LET dm == Damaged(diskMeta, metaCondition)
           di == Damaged(diskIndex, indexCondition)
           eff == InitEffect(dm, di)
           w == RunWrites(dm, di, eff.steps, [i \in 1..Len(eff.steps) |-> "ok"], << >>)
       IN /\ metadata' = eff.metadata
          /\ index' = eff.index
          /\ diskMeta' = w.diskMeta
          /\ diskIndex' = w.diskIndex
          /\ writes' = w.log
          /\ call' = [op |-> "construct", after |-> "damage",
                      metadata_file |-> metaCondition, index_file |-> indexCondition]
          /\ ret' = IF w.raised THEN Raised("RuntimeError") ELSE Returned(0)
          /\ embOf' = TrackEmb(EmptyMap, eff.metadata)

DocIds == 1..MaxDocs

\* ------------------------------------------------------------ _split_text
Chars == {"a", " ", ".", "\n"}
Whitespace == {" ", "\n"}
TextInputs == UNION {[1..n -> Chars] : n \in 0..MaxLen}

\* A Python slice bound on a string of length n: negative bounds count from
\* the end, and both ends are clipped to [0, n].
SliceBound(i, n) ==
    IF i < 0 THEN (IF i + n < 0 THEN 0 ELSE i + n) ELSE (IF i > n THEN n ELSE i)

\* s[a:b]
Slice(s, a, b) == SubSeq(s, SliceBound(a, Len(s)) + 1, SliceBound(b, Len(s)))

\* The 0-based offsets at which pattern occurs inside s[lo:hi].
Occurrences(s, pattern, lo, hi) ==
    {i \in SliceBound(lo, Len(s)) .. (SliceBound(hi, Len(s)) - Len(pattern)) :
        SubSeq(s, i + 1, i + Len(pattern)) = pattern}

\* s.find(pattern, lo, hi) and s.rfind(pattern, lo, hi)
Find(s, pattern, lo, hi) ==
    IF Occurrences(s, pattern, lo, hi) = {} THEN -1
    ELSE Min(Occurrences(s, pattern, lo, hi))

RFind(s, pattern, lo, hi) ==
    IF Occurrences(s, pattern, lo, hi) = {} THEN -1
    ELSE Max(Occurrences(s, pattern, lo, hi))

\* s.strip()
RECURSIVE LStrip(_)
LStrip(s) == IF s # << >> /\ Head(s) \in Whitespace THEN LStrip(Tail(s)) ELSE s

RECURSIVE RStrip(_)
RStrip(s) ==
    IF s # << >> /\ s[Len(s)] \in Whitespace THEN RStrip(SubSeq(s, 1, Len(s) - 1)) ELSE s

Strip(s) == RStrip(LStrip(s))

\* The offsets of s[a:b] that `kept` holds, where kept is s[a:b] or
\* s[a:b].strip().
Offsets(s, a, b, kept) ==
    LET raw == Slice(s, a, b)
        first == SliceBound(a, Len(s)) + (Len(raw) - Len(LStrip(raw)))
    IN first .. (first + Len(kept) - 1)

\* Variant: the cursor moves one past the cut.
NextStartPastCut(cut, size, overlap) == cut + 1

\* Line 559.
sentence_patterns ==
    << <<".", " ">>, <<"?", " ">>, <<"!", " ">>,
       <<".", "\n">>, <<"?", "\n">>, <<"!", "\n">> >>

\* Variant: with no boundary in the window the cut is one past the window.
SplitPointOverrun(s, from, size) ==
    LET end == from + size
        lo == from + size \div 2
        paragraph_end == Find(s, <<"\n", "\n">>, lo, end)
        sentence_ends ==
            {Find(s, sentence_patterns[i], lo, end) : i \in DOMAIN sentence_patterns}
                \ {-1}
        space == RFind(s, <<" ">>, lo, end)
    IN IF paragraph_end # -1 THEN paragraph_end + 2
       ELSE IF sentence_ends # {} THEN Max(sentence_ends) + 1
       ELSE IF space # -1 THEN space + 1
       ELSE end + 1

\* Lines 554-576: where the chunk that begins at `from` is cut.
SplitPoint(s, from, size) ==
    LET end == from + size
        lo == from + size \div 2
        paragraph_end == Find(s, <<"\n", "\n">>, lo, end)
        sentence_ends ==
            {Find(s, sentence_patterns[i], lo, end) : i \in DOMAIN sentence_patterns}
                \ {-1}
        space == RFind(s, <<" ">>, lo, end)
    IN IF paragraph_end # -1 THEN paragraph_end + 2
       ELSE IF sentence_ends # {} THEN Max(sentence_ends) + 1
       ELSE IF space # -1 THEN space + 1
       ELSE end

\* Variant: the cursor steps back one more than the overlap.
NextStartExtraOverlap(cut, size, overlap) ==
    LET s1 == cut - overlap - 1
        s2 == IF s1 < cut - size
              THEN cut - (IF overlap < size \div 2 THEN overlap ELSE size \div 2)
              ELSE s1
    IN IF s2 <= cut - size THEN cut ELSE s2

\* Lines 583-591: the next value of the cursor.
NextStart(cut, size, overlap) ==
    LET s1 == cut - overlap
        s2 == IF s1 < cut - size
              THEN cut - (IF overlap < size \div 2 THEN overlap ELSE size \div 2)
              ELSE s1
    IN IF s2 <= cut - size THEN cut ELSE s2

\* Lines 529-540: the two early returns, else the loop is entered.
SplitEnter ==
    /\ split_pc = "idle"
    /\ iters' = 0
    /\ split_point' = 0
    /\ start' = 0
    /\ IF Strip(text) = << >>
       THEN split_pc' = "done" /\ split_chunks' = << >> /\ covered' = {}
       ELSE IF Len(text) <= chunk_size
       THEN /\ split_pc' = "done"
            /\ split_chunks' = << text >>
            /\ covered' = Offsets(text, 0, Len(text), text)
       ELSE split_pc' = "loop" /\ split_chunks' = << >> /\ covered' = {}
    /\ UNCHANGED <<text, chunk_size, chunk_overlap, storeVars, threads, other>>

\* Lines 541-591: one pass through the loop, from the test of the while to
\* the break, to the exit or back to the test.
SplitIterate ==
    /\ split_pc = "loop"
    /\ iters < MaxIter
    /\ IF ~(start < Len(text))
       THEN /\ split_pc' = "done"
            /\ UNCHANGED <<start, split_point, split_chunks, iters, covered>>
       ELSE IF start + chunk_size >= Len(text)
       THEN /\ split_chunks' = Append(split_chunks, Slice(text, start, Len(text)))
            /\ covered' = covered \cup Offsets(text, start, Len(text),
                                                Slice(text, start, Len(text)))
            /\ split_pc' = "done"
            /\ UNCHANGED <<start, split_point, iters>>
       ELSE LET cut == SplitPoint(text, start, chunk_size)
                chunk == Strip(Slice(text, start, cut))
            IN /\ split_chunks' = IF chunk # << >> THEN Append(split_chunks, chunk)
                                  ELSE split_chunks
               /\ covered' = covered \cup Offsets(text, start, cut, chunk)
               /\ split_point' = cut
               /\ start' = NextStart(cut, chunk_size, chunk_overlap)
               /\ iters' = iters + 1
               /\ split_pc' = "loop"
    /\ UNCHANGED <<text, chunk_size, chunk_overlap, storeVars, threads, other>>

SplitIdle ==
    /\ text = << >>
    /\ chunk_size = 1
    /\ chunk_overlap = 0
    /\ start = 0
    /\ split_point = 0
    /\ split_chunks = << >>
    /\ split_pc = "idle"
    /\ iters = 0
    /\ covered = {}

StoreInit ==
    /\ metadata = NewMetadata
    /\ index = << >>
    /\ diskMeta = Data(NewMetadata)
    /\ diskIndex = Data(<< >>)
    /\ call = [op |-> "construct", after |-> "start"]
    /\ ret = Returned(0)
    /\ writes = << >>
    /\ embOf = EmptyMap
    /\ faults = 0
    /\ threads = [t \in Threads |-> IdleThread]
    /\ other = [metadata |-> NewMetadata, index |-> << >>]

\* A store constructed on an empty directory; no text is being split.
Init == StoreInit /\ SplitIdle

Next ==
    \/ (\E a \in AddInputs : AddDocument(a.nchunks, a.embeddings, 0))
          /\ UNCHANGED restVars
    \/ (\E d \in DocIds : DeleteDocument(d, 0)) /\ UNCHANGED restVars

\* The store under add_document and delete_document, one call at a time,
\* with no storage failure.
Spec == Init /\ [][Next]_vars

NextSearch ==
    \/ Next
    \/ (\E q \in QueryInputs, k \in 1..MaxK : Search(q, k)) /\ UNCHANGED restVars

\* The same store, searched between the calls.
SpecSearch == Init /\ [][NextSearch]_vars

NextFaults ==
    \/ (\E a \in AddInputs : AddDocument(a.nchunks, a.embeddings, MaxFaults))
          /\ UNCHANGED restVars
    \/ (\E d \in DocIds : DeleteDocument(d, MaxFaults)) /\ UNCHANGED restVars

\* The store whose file writes may fail, MaxFaults times in a behaviour.
SpecFaults == Init /\ [][NextFaults]_vars

NextStop ==
    \/ (\E a \in AddInputs : AddDocument(a.nchunks, a.embeddings, 0))
          /\ UNCHANGED restVars
    \/ (\E d \in DocIds : DeleteDocument(d, 0)) /\ UNCHANGED restVars
    \/ (\E a \in AddInputs : StopInAdd(a.nchunks, a.embeddings)) /\ UNCHANGED restVars
    \/ (\E d \in DocIds : StopInDelete(d)) /\ UNCHANGED restVars

\* The store whose process may stop inside add_document or delete_document
\* and be started again on the same directory.
SpecStop == Init /\ [][NextStop]_vars

NextReopen ==
    \/ Next
    \/ (\E mc, ic \in FileConditions :
            (mc # "intact" \/ ic # "intact") /\ ReopenDamaged(mc, ic))
          /\ UNCHANGED restVars

\* The store under add_document and delete_document, closed once and
\* constructed again on a directory with a damaged file.
SpecReopen == Init /\ [][NextReopen]_vars

\* The adds the dashboard makes come from process_file, one embedding row
\* per chunk; the values of the rows play no part in the callbacks.
DashboardAdds ==
    {[nchunks |-> n, embeddings |-> ZeroArray(n, Dim)] : n \in 1..MaxChunks}

NextDashboard ==
    \/ (\E a \in DashboardAdds : AddDocument(a.nchunks, a.embeddings, 0))
          /\ UNCHANGED restVars
    \/ (\E d \in DocIds : DeleteDocument(d, 0)) /\ UNCHANGED restVars
    \/ (\E which \in {"get_all_documents", "get_all_chunks"} : GetAll(which))
          /\ UNCHANGED restVars
    \/ UpdateFileList /\ UNCHANGED restVars
    \/ (\E d \in DocIds : DisplayChunkList(d)) /\ UNCHANGED restVars

\* The store behind the dashboard: documents are added and deleted, and the
\* two list callbacks and the read operations they call run in between.
SpecDashboard == Init /\ [][NextDashboard]_vars

\* One-chunk documents, enough for two objects to overwrite each other.
OneChunkAdds == {a \in DashboardAdds : a.nchunks = 1}

NextTwoObjects ==
    \/ (\E a \in OneChunkAdds : AddDocument(a.nchunks, a.embeddings, 0))
          /\ UNCHANGED restVars
    \/ (\E d \in DocIds : DeleteDocument(d, 0)) /\ UNCHANGED restVars
    \/ (\E a \in OneChunkAdds : OtherAddDocument(a.nchunks, a.embeddings))
          /\ UNCHANGED splitVars
    \/ (\E d \in DocIds : OtherDeleteDocument(d)) /\ UNCHANGED splitVars

\* Two VectorDB objects constructed on the same empty directory, each used
\* for add_document and delete_document, one call at a time.
SpecTwoObjects == Init /\ [][NextTwoObjects]_vars

\* The thread that runs delete_document while another one searches.
Deleter == 1

NextSearchDuringDelete ==
    \/ (NoThreadActive
          /\ \E a \in WellFormedAdds : AddDocument(a.nchunks, a.embeddings, 0))
          /\ UNCHANGED restVars
    \/ (\E d \in DocIds : DelCollect(Deleter, d)) /\ UNCHANGED <<splitVars, other>>
    \/ DelRemap(Deleter) /\ UNCHANGED <<splitVars, other>>
    \/ DelSwap(Deleter) /\ UNCHANGED <<splitVars, other>>
    \/ DelFinish(Deleter) /\ UNCHANGED <<splitVars, other>>
    \/ (\E q \in Rows(Dim), k \in 1..MaxK : Search(q, k)) /\ UNCHANGED restVars

\* A store that is filled, then searched by one thread while another is
\* inside delete_document.
SpecSearchDuringDelete == Init /\ [][NextSearchDuringDelete]_vars

MaxThreadChunks == 2

NextTwoAdds ==
    \/ \E t \in Threads, n \in 1..MaxThreadChunks :
           AddTakeDocId(t, n) /\ UNCHANGED <<splitVars, other>>
    \/ \E t \in Threads : AddStoreDocument(t) /\ UNCHANGED <<splitVars, other>>
    \/ \E t \in Threads : AddToIndex(t) /\ UNCHANGED <<splitVars, other>>
    \/ \E t \in Threads : AddTakeChunkId(t) /\ UNCHANGED <<splitVars, other>>
    \/ \E t \in Threads : AddStoreChunk(t) /\ UNCHANGED <<splitVars, other>>
    \/ \E t \in Threads : AddFinish(t) /\ UNCHANGED <<splitVars, other>>

\* Two files uploaded at once: two threads, each inside one add_document
\* call on the same VectorDB, scheduled in every order.
SpecTwoAdds == Init /\ [][NextTwoAdds]_vars

\* _split_text on every text and configuration within the bounds.  Overlaps
\* of chunk_size and more are included: __init__ (lines 40-59) stores the two
\* numbers as given.
InitSplit ==
    /\ StoreInit
    /\ text \in TextInputs
    /\ chunk_size \in 1..MaxChunkSize
    /\ chunk_overlap \in 0..MaxChunkSize
    /\ start = 0
    /\ split_point = 0
    /\ split_chunks = << >>
    /\ split_pc = "idle"
    /\ iters = 0
    /\ covered = {}

NextSplit == SplitEnter \/ SplitIterate

SpecSplit == InitSplit /\ [][NextSplit]_vars

\* _split_text with a chunk_size whose window [start + chunk_size//2,
\* start + chunk_size) is wide enough for two occurrences of a two-character
\* pattern, on every text within the bound.
InitSplitWide ==
    /\ StoreInit
    /\ text \in UNION {[1..n -> Chars] : n \in 0..MaxWideLen}
    /\ chunk_size = WideChunkSize
    /\ chunk_overlap \in 0..1
    /\ start = 0
    /\ split_point = 0
    /\ split_chunks = << >>
    /\ split_pc = "idle"
    /\ iters = 0
    /\ covered = {}

SpecSplitWide == InitSplitWide /\ [][NextSplit]_vars

\* A text of ExampleLen characters in paragraphs of `period` characters, each
\* ending in a paragraph break.  With a period below half of chunk_size every
\* window of _split_text holds a break, so the letters between the breaks do
\* not influence where it cuts.
ParagraphText(period) ==
    [i \in 1..ExampleLen |-> IF i % period \in {period - 1, 0} THEN "\n" ELSE "a"]

\* _split_text with the default configuration on the example texts.
InitSplitExample ==
    /\ StoreInit
    /\ text \in {ParagraphText(period) : period \in MinPeriod..MaxPeriod}
    /\ chunk_size = DefaultChunkSize
    /\ chunk_overlap = DefaultChunkOverlap
    /\ start = 0
    /\ split_point = 0
    /\ split_chunks = << >>
    /\ split_pc = "idle"
    /\ iters = 0
    /\ covered = {}

SpecSplitExample == InitSplitExample /\ [][NextSplit]_vars

\* ======================================================== the properties
LiveChunks == DOMAIN metadata.chunks
VectorIndexOf(c) == metadata.chunks[c].vector_index
Stats == get_stats(metadata, index)
DeleteReturnedTrue ==
    call.op = "delete_document" /\ ret.status = "returned" /\ ret.value = TRUE

\* C1: after any sequence of add_document and delete_document calls, failed
\* ones included, the vector_index values of the live chunk records are
\* pairwise distinct, each lies in [0, index.ntotal), and index.ntotal is the
\* number of live chunk records.
C1_VectorIndexConsistent ==
    /\ \A c1, c2 \in LiveChunks : c1 # c2 => VectorIndexOf(c1) # VectorIndexOf(c2)
    /\ \A c \in LiveChunks : 0 <= VectorIndexOf(c) /\ VectorIndexOf(c) < ntotal(index)
    /\ ntotal(index) = Cardinality(LiveChunks)

\* A delete that renumbered survivors, in a store that also holds the record
\* a rejected add left behind.
C1_Witness ==
    /\ DeleteReturnedTrue
    /\ \E c \in LiveChunks : VectorIndexOf(c) < c - 1
    /\ \E d \in DOMAIN metadata.documents : "chunk_ids" \notin DOMAIN metadata.documents[d]

\* C2: when delete_document(d) returns True, every chunk of another document
\* finds at its new vector_index the vector it had at its old vector_index.
C2_SurvivorsKeepTheirVector ==
    [][(call'.op = "delete_document" /\ ret'.status = "returned" /\ ret'.value = TRUE)
        => \A c \in DOMAIN metadata'.chunks :
              /\ c \in DOMAIN metadata.chunks
              /\ index'[metadata'.chunks[c].vector_index + 1]
                   = index[metadata.chunks[c].vector_index + 1]]_vars

\* A delete moved a survivor, and the survivors' vectors are not all equal.
C2_Witness ==
    /\ DeleteReturnedTrue
    /\ \E c \in LiveChunks : VectorIndexOf(c) < c - 1
    /\ \E i, j \in DOMAIN index : index[i] # index[j]

\* C3: when delete_document(d) returns True for a document that has n chunk
\* records, get_document_by_id(d) is None, get_chunk_by_id is None for each
\* of d's former chunk ids, chunk_count and vector_count drop by n and
\* document_count by 1; a 3-chunk add on an empty store gives counts
\* (1, 3, 3) and deleting that document gives (0, 0, 0).
C3_DeleteRemovesDocument ==
    [][/\ (call'.op = "delete_document" /\ ret'.status = "returned" /\ ret'.value = TRUE
           /\ call'.doc_id \in DOMAIN metadata.documents)
          => LET d == call'.doc_id
                 former == ChunksOfDoc(metadata, d)
                             \cup Range(GetChunkIds(metadata.documents[d]))
                 n == Cardinality(ChunksOfDoc(metadata, d))
                 before == get_stats(metadata, index)
                 after == get_stats(metadata', index')
             IN /\ get_document_by_id(metadata', d) = None
                /\ \A c \in former : get_chunk_by_id(metadata', c) = None
                /\ after.chunk_count = before.chunk_count - n
                /\ after.vector_count = before.vector_count - n
                /\ after.document_count = before.document_count - 1
                /\ (before = [document_count |-> 1, chunk_count |-> 3, vector_count |-> 3]
                      => after = [document_count |-> 0, chunk_count |-> 0, vector_count |-> 0])
       /\ (call'.op = "add_document" /\ ret'.status = "returned"
           /\ get_stats(metadata, index)
                = [document_count |-> 0, chunk_count |-> 0, vector_count |-> 0]
           /\ metadata'.documents[ret'.value].chunk_count = 3)
          => get_stats(metadata', index')
                = [document_count |-> 1, chunk_count |-> 3, vector_count |-> 3]
      ]_vars

\* The 3-chunk document was added to the empty store and deleted again.
C3_Witness ==
    /\ DeleteReturnedTrue
    /\ metadata.next_doc_id = 2
    /\ metadata.next_chunk_id = 4
    /\ Stats = [document_count |-> 0, chunk_count |-> 0, vector_count |-> 0]

\* C4: add_document with embeddings of a width other than the index's raises
\* and leaves document_count, chunk_count and vector_count as they were.
C4_WrongWidthChangesNoCount ==
    [][(call'.op = "add_document" /\ call'.shape = "wrong_width")
        => /\ ret'.status = "raised"
           /\ get_stats(metadata', index') = get_stats(metadata, index)]_vars

\* C5: add_document with no chunk, no embedding row or differing counts
\* raises ValueError and leaves metadata, index and both files as they were.
C5_RejectedShapesChangeNothing ==
    [][(call'.op = "add_document"
        /\ call'.shape \in {"no_chunks", "no_rows", "count_mismatch"})
        => /\ ret' = Raised("ValueError")
           /\ UNCHANGED <<metadata, index, diskMeta, diskIndex>>]_vars

\* A differing-count call was rejected on a store that holds documents.
C5_Witness ==
    /\ call.op = "add_document"
    /\ call.shape = "count_mismatch"
    /\ ret = Raised("ValueError")
    /\ Stats.document_count >= 1

\* C6: with chunk_size >= 1 and 0 <= chunk_overlap < chunk_size, every loop
\* iteration of _split_text that runs to its end leaves the cursor `start`
\* strictly greater than it found it.
C6_CursorStrictlyIncreases ==
    [][(split_pc = "loop" /\ split_pc' = "loop" /\ iters' = iters + 1
        /\ chunk_size >= 1 /\ chunk_overlap < chunk_size)
        => start' > start]_vars

\* C7: a search whose query is the embedding a live chunk was added with
\* returns, as its first result, a chunk added with that same embedding, at
\* distance 0 and similarity 1.
C7_SelfSearchIsTop ==
    (call.op = "search" /\ \E c \in LiveChunks : embOf[c] = call.query)
    => /\ ret.status = "returned"
       /\ Len(ret.value) >= 1
       /\ ret.value[1].distance = 0
       /\ ret.value[1].similarity.num = ret.value[1].similarity.den
       /\ ret.value[1].chunk_id \in LiveChunks
       /\ embOf[ret.value[1].chunk_id] = call.query

\* The query is the embedding of a chunk that is not stored first, and the
\* store holds another embedding too.
C7_Witness ==
    /\ call.op = "search"
    /\ ret.status = "returned"
    /\ Len(ret.value) >= 1
    /\ VectorIndexOf(ret.value[1].chunk_id) > 0
    /\ embOf[ret.value[1].chunk_id] = call.query
    /\ \E c \in LiveChunks : embOf[c] # call.query

\* C8: a search with a query of the index's width returns min(top_k,
\* vector_count) results in non-decreasing distance, none of them for the
\* label -1, and every search on a store with no vector returns the empty list.
C8_SearchResultShape ==
    call.op = "search"
    => /\ ntotal(index) = 0 => ret = Returned(<< >>)
       /\ Len(call.query) = Dim
          => /\ ret.status = "returned"
             /\ Len(ret.value) = Min({call.top_k, ntotal(index)})
             /\ \A i, j \in DOMAIN ret.value :
                   i < j => ret.value[i].distance <= ret.value[j].distance
             /\ \A i \in DOMAIN ret.value :
                   /\ ret.value[i].chunk_id \in LiveChunks
                   /\ VectorIndexOf(ret.value[i].chunk_id) \in 0..(ntotal(index) - 1)
                   /\ ret.value[i].distance < NoHitDistance

\* top_k exceeds the number of stored vectors, after a delete renumbered.
C8_Witness ==
    /\ call.op = "search"
    /\ Len(call.query) = Dim
    /\ ntotal(index) = 1
    /\ call.top_k = 2
    /\ ret.status = "returned"
    /\ Len(ret.value) = 1
    /\ ret.value[1].chunk_id > 1

\* C9: in every add_document and delete_document call that writes, the index
\* file is written before the metadata file.
C9_IndexWrittenBeforeMetadata ==
    (call.op \in {"add_document", "delete_document"} /\ writes # << >>)
    => \E i \in DOMAIN writes :
          /\ writes[i].file = "index"
          /\ \A j \in DOMAIN writes : writes[j].file = "metadata" => i < j

\* C10: after the process stops inside add_document or delete_document and a
\* new VectorDB is constructed on the directory, the store holds as many
\* chunk records as vectors and every vector_index is below the vector count.
C10_ReopenedStoreIsWhole ==
    (call.op = "construct" /\ call.after = "stop")
    => /\ Cardinality(LiveChunks) = ntotal(index)
       /\ \A c \in LiveChunks : VectorIndexOf(c) < ntotal(index)

\* C11: every write of add_document, delete_document or construction that
\* replaces an existing metadata or index file copied that file to a backup
\* first.
C11_BackupBeforeOverwrite ==
    \A i \in DOMAIN writes :
        (writes[i].existed /\ writes[i].outcome # "none") => writes[i].backed_up

\* C12: when a write of the metadata file or of the index file fails during
\* add_document or delete_document, the call raises: it returns neither a
\* document id nor True.
C12_WriteFailureRaises ==
    (/\ call.op \in {"add_document", "delete_document"}
     /\ \E i \in DOMAIN writes : writes[i].outcome # "ok")
    => ret.status = "raised"

\* C13: between operations, every document record has a chunk_ids list as
\* long as its chunk_count, and every id in it is the key of a chunk record
\* that names the document.
C13_DocumentChunkIdsConsistent ==
    \A d \in DOMAIN metadata.documents :
        LET doc == metadata.documents[d]
        IN /\ "chunk_ids" \in DOMAIN doc
           /\ Len(doc.chunk_ids) = doc.chunk_count
           /\ \A c \in Range(doc.chunk_ids) :
                 c \in LiveChunks /\ metadata.chunks[c].doc_id = d

\* C14: every string _split_text returns is non-empty and has no leading or
\* trailing whitespace; whitespace-only text gives the empty list, and a text
\* no longer than chunk_size gives the one chunk text.strip().
C14_ChunksAreTrimmed ==
    split_pc = "done"
    => /\ \A i \in DOMAIN split_chunks :
             split_chunks[i] # << >> /\ Strip(split_chunks[i]) = split_chunks[i]
       /\ Strip(text) = << >> => split_chunks = << >>
       /\ (Strip(text) # << >> /\ Len(text) <= chunk_size)
             => split_chunks = << Strip(text) >>

\* C15: with chunk_size >= 1 and chunk_overlap < chunk_size, every chunk
\* _split_text has produced is at most chunk_size long.
C15_ChunkWithinSize ==
    (chunk_size >= 1 /\ chunk_overlap < chunk_size)
    => \A i \in DOMAIN split_chunks : Len(split_chunks[i]) <= chunk_size

\* A text longer than chunk_size was split with an overlap into several
\* chunks, one of them cut short at a boundary and one of the full size.
C15_Witness ==
    /\ split_pc = "done"
    /\ chunk_overlap >= 1
    /\ chunk_overlap < chunk_size
    /\ Len(split_chunks) >= 2
    /\ \E i \in DOMAIN split_chunks : Len(split_chunks[i]) = chunk_size
    /\ \E i \in DOMAIN split_chunks : Len(split_chunks[i]) < chunk_size

\* The offsets of all occurrences of all six sentence patterns in s[lo:hi].
AllSentenceEnds(s, lo, hi) ==
    UNION {Occurrences(s, sentence_patterns[i], lo, hi) : i \in DOMAIN sentence_patterns}

\* C16: when the window [start + chunk_size//2, start + chunk_size) holds no
\* paragraph break but holds sentence patterns, the cut is right after the
\* punctuation of the occurrence with the greatest offset, over all
\* occurrences of all six patterns.
C16_CutAfterLastSentenceEnd ==
    [][(/\ split_pc = "loop"
        /\ iters' = iters + 1
        /\ Occurrences(text, <<"\n", "\n">>, start + chunk_size \div 2,
                       start + chunk_size) = {}
        /\ AllSentenceEnds(text, start + chunk_size \div 2, start + chunk_size) # {})
        => split_point' =
              Max(AllSentenceEnds(text, start + chunk_size \div 2,
                                  start + chunk_size)) + 1]_vars

\* C17: a chunker whose chunk_overlap is chunk_size or more is rejected
\* before any chunk is produced: _split_text produces no chunk with it.
C17_OverlapNotBelowSizeRejected ==
    chunk_overlap >= chunk_size => split_chunks = << >>

\* C18: delete_document with a doc_id that is not in the store returns False
\* and leaves the documents map, the chunks map, both id counters, the index
\* and both files as they were.
C18_DeleteUnknownChangesNothing ==
    [][(call'.op = "delete_document" /\ call'.doc_id \notin DOMAIN metadata.documents)
        => /\ ret' = Returned(FALSE)
           /\ UNCHANGED <<metadata, index, diskMeta, diskIndex>>]_vars

\* The id of a document deleted earlier was deleted again, on a store that
\* holds another document and whose metadata file is behind the memory.
C18_Witness ==
    /\ call.op = "delete_document"
    /\ ret = Returned(FALSE)
    /\ call.doc_id < metadata.next_doc_id
    /\ Stats.document_count >= 1
    /\ Stats.chunk_count >= 1
    /\ diskMeta # Data(metadata)

\* C19: document ids and chunk ids are never reused: neither counter ever
\* goes down, every id a call assigns is at least the counter the call found
\* (so above every id assigned before, deleted ones included), add_document
\* returns the id it assigned, and in every state both counters are above
\* every live document id and chunk id.
C19_IdsNeverReused ==
    [][/\ metadata'.next_doc_id >= metadata.next_doc_id
       /\ metadata'.next_chunk_id >= metadata.next_chunk_id
       /\ \A d \in DOMAIN metadata'.documents \ DOMAIN metadata.documents :
             d >= metadata.next_doc_id
       /\ \A c \in DOMAIN metadata'.chunks \ DOMAIN metadata.chunks :
             c >= metadata.next_chunk_id
       /\ (call'.op = "add_document" /\ ret'.status = "returned")
             => ret'.value \in DOMAIN metadata'.documents \ DOMAIN metadata.documents
       /\ \A d \in DOMAIN metadata'.documents : d < metadata'.next_doc_id
       /\ \A c \in DOMAIN metadata'.chunks : c < metadata'.next_chunk_id]_vars

\* A document was added after the first document and its chunks were
\* deleted: the new ids are above the deleted ones.
C19_Witness ==
    /\ call.op = "add_document"
    /\ ret.status = "returned"
    /\ ret.value >= 2
    /\ 1 \notin DOMAIN metadata.documents
    /\ 1 \notin LiveChunks
    /\ ret.value = Max(DOMAIN metadata.documents)
    /\ Stats.document_count >= 2

\* C20: constructing a VectorDB on a directory whose metadata file or index
\* file is corrupt or unreadable does not raise; an unreadable metadata file
\* gives the fresh metadata (no documents, no chunks, both counters 1) and an
\* unreadable index file gives an index of zero vectors.
C20_DamagedStoreOpensEmpty ==
    (call.op = "construct" /\ call.after = "damage")
    => /\ ret.status = "returned"
       /\ call.metadata_file # "intact" => metadata = NewMetadata
       /\ call.index_file # "intact" => index = << >>

\* C24: a successful add_document of N chunks on a store that holds V
\* vectors gives the new chunks, in chunk order (index 0..N-1), the
\* vector_index values V..V+N-1, each the position of the chunk's own
\* embedding, and leaves every existing document record, chunk record and
\* stored vector unchanged.
C24_AddAppendsInOrder ==
    [][(call'.op = "add_document" /\ ret'.status = "returned")
        => LET V == ntotal(index)
               new == DOMAIN metadata'.chunks \ DOMAIN metadata.chunks
               N == Cardinality(new)
           IN /\ N >= 1
              /\ ntotal(index') = V + N
              /\ {metadata'.chunks[c].index : c \in new} = 0..(N - 1)
              /\ \A c \in new :
                    /\ metadata'.chunks[c].doc_id = ret'.value
                    /\ metadata'.chunks[c].index = c - Min(new)
                    /\ metadata'.chunks[c].vector_index = V + metadata'.chunks[c].index
                    /\ index'[metadata'.chunks[c].vector_index + 1] = embOf'[c]
              /\ \A d \in DOMAIN metadata.documents :
                    /\ d \in DOMAIN metadata'.documents
                    /\ metadata'.documents[d] = metadata.documents[d]
              /\ \A c \in DOMAIN metadata.chunks :
                    /\ c \in DOMAIN metadata'.chunks
                    /\ metadata'.chunks[c] = metadata.chunks[c]
              /\ \A p \in 1..V : index'[p] = index[p]]_vars

\* Two chunks with different embeddings were added to a store that already
\* held a vector.
C24_Witness ==
    /\ call.op = "add_document"
    /\ ret.status = "returned"
    /\ Stats.document_count >= 2
    /\ \E c1, c2 \in ChunksOfDoc(metadata, ret.value) :
          /\ metadata.chunks[c1].index = 0
          /\ metadata.chunks[c2].index = 1
          /\ VectorIndexOf(c1) >= 1
          /\ embOf[c1] # embOf[c2]

\* C25: when delete_document(d) returns True, the surviving chunks keep the
\* relative order of their vector_index values, the new values are exactly
\* 0..M-1 for M survivors, no other field of a surviving chunk changes, every
\* chunk of another document survives, and no record of another document
\* changes.
C25_DeleteKeepsOrder ==
    [][(call'.op = "delete_document" /\ ret'.status = "returned" /\ ret'.value = TRUE)
        => LET survivors == DOMAIN metadata'.chunks
               M == Cardinality(survivors)
           IN /\ survivors \subseteq DOMAIN metadata.chunks
              /\ \A c \in DOMAIN metadata.chunks :
                    metadata.chunks[c].doc_id # call'.doc_id => c \in survivors
              /\ \A c \in survivors :
                    /\ metadata'.chunks[c].doc_id = metadata.chunks[c].doc_id
                    /\ metadata'.chunks[c].index = metadata.chunks[c].index
              /\ \A c1, c2 \in survivors :
                    metadata.chunks[c1].vector_index < metadata.chunks[c2].vector_index
                    => metadata'.chunks[c1].vector_index < metadata'.chunks[c2].vector_index
              /\ {metadata'.chunks[c].vector_index : c \in survivors} = 0..(M - 1)
              /\ ntotal(index') = M
              /\ \A d \in DOMAIN metadata.documents \ {call'.doc_id} :
                    /\ d \in DOMAIN metadata'.documents
                    /\ metadata'.documents[d] = metadata.documents[d]]_vars

\* A delete left chunks of two other documents, at least one of them moved
\* to a lower position.
C25_Witness ==
    /\ DeleteReturnedTrue
    /\ Stats.document_count >= 2
    /\ \E c1, c2 \in LiveChunks :
          /\ metadata.chunks[c1].doc_id # metadata.chunks[c2].doc_id
          /\ VectorIndexOf(c1) < VectorIndexOf(c2)
          /\ VectorIndexOf(c2) < c2 - 1

\* C29: after a VectorDB is constructed on a directory in which the metadata
\* file, the index file or both are damaged, the store has as many vectors as
\* chunk records and every vector_index is below the vector count.
C29_ConstructedStoreIsConsistent ==
    (call.op = "construct" /\ call.after = "damage" /\ ret.status = "returned")
    => /\ ntotal(index) = Cardinality(LiveChunks)
       /\ \A c \in LiveChunks : VectorIndexOf(c) < ntotal(index)

\* C23: with chunk_size 1000 and chunk_overlap 200, a 2500-character text
\* with a paragraph break about every 400 characters is split into exactly 3
\* chunks, each at most 1000 characters long.
C23_ExampleGivesThreeChunks ==
    split_pc = "done"
    => /\ Len(split_chunks) = 3
       /\ \A i \in DOMAIN split_chunks : Len(split_chunks[i]) <= DefaultChunkSize

\* C28: whenever chunk_overlap <= chunk_size // 2, the cursor `start` of
\* _split_text is never negative and every iteration that runs to its end
\* raises it by at least chunk_size // 2 + 1 - chunk_overlap, which is at
\* least 1, so no more than len(text) iterations run.
C28_CursorGrowsUnderHalfOverlap ==
    [][(chunk_overlap <= chunk_size \div 2 /\ split_pc = "loop")
        => /\ start >= 0
           /\ start' >= 0
           /\ chunk_size \div 2 + 1 - chunk_overlap >= 1
           /\ iters' = iters + 1
                 => start' >= start + (chunk_size \div 2 + 1 - chunk_overlap)
           /\ iters' <= Len(text)
           /\ iters' < MaxIter]_vars

\* A run with an overlap of half the chunk size that took several
\* iterations and returned.
C28_Witness ==
    /\ split_pc = "done"
    /\ chunk_overlap >= 1
    /\ chunk_overlap <= chunk_size \div 2
    /\ iters >= 3
    /\ Len(split_chunks) >= 3

\* C22: in every run of _split_text with chunk_overlap < chunk_size the
\* first range starts at 0 and each later range starts at or before the end
\* of the one before; when the run terminates the last range ends at
\* len(text), and every non-whitespace character of the text is held by a
\* returned chunk.
C22_RangesLeaveNoGap ==
    [][(chunk_overlap < chunk_size)
        => /\ split_pc = "idle" => start' = 0
           /\ iters' = iters + 1 => start' <= split_point'
           /\ (split_pc = "loop" /\ split_pc' = "done")
                 => /\ start >= 0
                    /\ split_chunks' =
                          Append(split_chunks, SubSeq(text, start + 1, Len(text)))
           /\ split_pc' = "done"
                 => \A i \in DOMAIN text :
                       text[i] \notin Whitespace => (i - 1) \in covered']_vars

\* A run with an overlap cut a text with inner whitespace into several
\* chunks and returned; the whitespace trimmed from a chunk is held by none.
C22_Witness ==
    /\ split_pc = "done"
    /\ chunk_overlap >= 1
    /\ chunk_overlap < chunk_size
    /\ iters >= 2
    /\ Len(split_chunks) >= 2
    /\ \E i \in DOMAIN text : (i - 1) \notin covered

\* C26: the read operations get_all_documents and get_all_chunks and the
\* dashboard callbacks update_file_list and display_chunk_list leave the
\* store's metadata unchanged.
C26_ReadsLeaveMetadataUnchanged ==
    [][(call'.op \in {"get_all_documents", "get_all_chunks",
                      "update_file_list", "display_chunk_list"})
        => metadata' = metadata]_vars

\* The documents and the vectors the two files hold.
DiskDocuments(file) == IF Readable(file) THEN DOMAIN file.content.documents ELSE {}
DiskVectors(file) == IF Readable(file) THEN Len(file.content) ELSE 0

\* C30: with two VectorDB objects on one directory, after an add_document
\* through the second object the files hold every document and vector they
\* held before and the new ones, and after its delete_document every
\* document they held before but the deleted one.
C30_OtherObjectKeepsPersistedDocuments ==
    [][("object" \in DOMAIN call' /\ ret'.status = "returned")
        => IF call'.op = "add_document"
           THEN /\ Cardinality(DiskDocuments(diskMeta'))
                     = Cardinality(DiskDocuments(diskMeta)) + 1
                /\ DiskVectors(diskIndex') > DiskVectors(diskIndex)
           ELSE ret'.value = TRUE
                => DiskDocuments(diskMeta) \ {call'.doc_id}
                       \subseteq DiskDocuments(diskMeta')]_vars

\* Both uploads have returned.
BothReturned == \A t \in Threads : threads[t].pc = "returned"

\* C27: after two interleaved add_document calls the two doc ids differ, no
\* chunk id was handed out twice, and every chunk's vector_index is the
\* position at which its own embedding was appended, so that the
\* vector_index values are pairwise distinct.
C27_InterleavedAddsStayDistinct ==
    BothReturned =>
        /\ threads[1].doc_id # threads[2].doc_id
        /\ Range(threads[1].chunk_ids) \cap Range(threads[2].chunk_ids) = {}
        /\ \A t \in Threads : \A i \in 1..threads[t].nchunks :
              LET c == threads[t].chunk_ids[i]
              IN /\ c \in DOMAIN metadata.chunks
                 /\ metadata.chunks[c].vector_index = threads[t].base + i - 1
        /\ \A c, d \in DOMAIN metadata.chunks :
              c # d => metadata.chunks[c].vector_index # metadata.chunks[d].vector_index

\* C21: a search scheduled between the statements of a delete_document
\* returns, for each hit, the chunk whose own embedding lies at the matched
\* distance from the query, and does not raise.
C21_SearchSeesIndexAndMetadataInStep ==
    (call.op = "search" /\ ~NoThreadActive) =>
        /\ ret.status = "returned"
        /\ \A i \in DOMAIN ret.value :
              /\ ret.value[i].chunk_id \in DOMAIN embOf
              /\ L2(embOf[ret.value[i].chunk_id], call.query) = ret.value[i].distance

=============================================================================
